---- MODULE Spec2Model ----
(* Model of the application bootstrap in                                   *)
(* packages/iris-files/src-tauri/src/lib.rs: run().                        *)
(* One launch of the process walks run() top to bottom; each action is one *)
(* statement (or one cfg-gated block) of run() and of its setup closure.   *)
(* The filesystem outlives the process, so a second launch is modelled by  *)
(* Relaunch, which keeps fs and resets everything the process owns.        *)
EXTENDS Naturals, Sequences, FiniteSets

\* ---------------------------------------------------------------- bounds
MaxArgs == 2        \* longest launch-argument sequence explored
PathDepth == 2      \* number of path components of the data directory
MaxLaunches == 2    \* launches of the process against the same filesystem

\* ------------------------------------------------------------- utilities
Range(s) == {s[i] : i \in DOMAIN s}

IsPrefix(s, t) == Len(s) <= Len(t) /\ SubSeq(t, 1, Len(s)) = s

IndexOf(s, e) == IF e \in Range(s) THEN CHOOSE i \in DOMAIN s : s[i] = e ELSE 0

SeqsUpTo(S, n) == UNION {[1..k -> S] : k \in 0..n}

\* ------------------------------------------------------ launch arguments
\* Strings are sequences of characters, so that equality is the
\* character-by-character comparison String::eq performs.
SENTINEL == <<"-", "-", "m", "i", "n", "i", "m", "i", "z", "e", "d">>

TokExtended == SENTINEL \o <<"=", "1">>
TokUpper == <<"-", "-", "M", "I", "N", "I", "M", "I", "Z", "E", "D">>
TokBare == SubSeq(SENTINEL, 3, Len(SENTINEL))
TokProgram == <<"i", "r", "i", "s">>

Tokens == {SENTINEL, TokExtended, TokUpper, TokBare, TokProgram}

\* A prefix match: what starts_with would compute instead of ==.
StartsWith(s, p) == Len(p) <= Len(s) /\ SubSeq(s, 1, Len(p)) = p

RECURSIVE Contains_Prefix(_, _)
Contains_Prefix(v, x) ==
    IF v = <<>> THEN FALSE
    ELSE IF StartsWith(Head(v), x) THEN TRUE
    ELSE Contains_Prefix(Tail(v), x)

\* Vec<String>::contains: iterate, stop at the first element equal to x.
RECURSIVE Contains(_, _)
Contains(v, x) ==
    IF v = <<>> THEN FALSE
    ELSE IF Head(v) = x THEN TRUE
    ELSE Contains(Tail(v), x)

\* ------------------------------------------------------------ filesystem
\* The data directory is the path c1/c2/.../c_PathDepth under an existing
\* root. fs[k] is what the filesystem holds at the k-th component:
\* a directory, a regular file, nothing, or nothing in a parent that
\* refuses creation ("denied").
Kinds == {"dir", "file", "absent", "denied"}

ValidFs ==
    {f \in [1..PathDepth -> Kinds] :
        \A k \in 2..PathDepth : f[k-1] # "dir" => f[k] = "absent"}

IsDir(f, k) == k = 0 \/ f[k] = "dir"

\* mkdir(2) on component k.
Mkdir(f, k) ==
    IF k = 0 THEN [err |-> "EEXIST", fs |-> f]
    ELSE IF ~IsDir(f, k-1)
        THEN [err |-> IF f[k-1] = "file" THEN "ENOTDIR" ELSE "ENOENT", fs |-> f]
    ELSE IF f[k] \in {"dir", "file"} THEN [err |-> "EEXIST", fs |-> f]
    ELSE IF f[k] = "denied" THEN [err |-> "EACCES", fs |-> f]
    ELSE [err |-> "none", fs |-> [f EXCEPT ![k] = "dir"]]

\* std::fs::create_dir without the recursion and without the tolerance of
\* an existing directory.
CreateDirAll_Single(f, k) ==
    LET m == Mkdir(f, k) IN [ok |-> m.err = "none", fs |-> m.fs]

\* std::fs::create_dir_all: try mkdir; on NotFound create the parent first
\* and try again; an error is forgiven when the path is a directory.
RECURSIVE CreateDirAll(_, _)
CreateDirAll(f, k) ==
    LET m == Mkdir(f, k) IN
    IF m.err = "none" THEN [ok |-> TRUE, fs |-> m.fs]
    ELSE IF m.err # "ENOENT"
        THEN [ok |-> IsDir(f, k), fs |-> f]
    ELSE IF k = 0 THEN [ok |-> FALSE, fs |-> f]
    ELSE LET p == CreateDirAll(f, k-1) IN
         IF ~p.ok THEN [ok |-> FALSE, fs |-> p.fs]
         ELSE LET m2 == Mkdir(p.fs, k) IN
              IF m2.err = "none" THEN [ok |-> TRUE, fs |-> m2.fs]
              ELSE [ok |-> IsDir(p.fs, k), fs |-> p.fs]

\* --------------------------------------------------------------- logging
DefaultFilter == "iris_files=info"

EnvValues == {"unset", "invalid", "iris_files=debug"}

\* EnvFilter::try_from_default_env: Err when RUST_LOG is unset or does not
\* parse, Ok(filter) otherwise.
TryFromDefaultEnv(e) ==
    IF e \in {"unset", "invalid"} THEN [ok |-> FALSE, filter |-> "none"]
    ELSE [ok |-> TRUE, filter |-> e]

\* Result::unwrap_or_else(|_| EnvFilter::new("iris_files=info"))
UnwrapOrDefault(r) == IF r.ok THEN r.filter ELSE DefaultFilter

\* ----------------------------------------------------------------- state
VARIABLES
    desktop,         \* cfg(any(target_os = "macos", windows, target_os = "linux"))
    envFilter,       \* value of RUST_LOG
    args,            \* std::env::args()
    mainWindow,      \* whether a webview window labelled "main" exists
    fs,              \* the filesystem along the data directory path
    launch,          \* number of this launch
    pc,              \* position in run()
    logInits,        \* times the tracing subscriber was installed
    filter,          \* the filter the subscriber was installed with
    log,             \* records received by the subscriber
    dropped,         \* records emitted while no subscriber was installed
    dataDir,         \* "none", "resolved", "created"
    argsRead,        \* whether the launch arguments were collected
    minimizedFlag,   \* result of args.contains("--minimized")
    minimizeCalls,   \* calls of window.minimize()
    minimizeResult,  \* "none", "ok", "err"
    windowMinimized, \* whether the main window is minimized
    registered,      \* plugins attached to the application, in order
    failure,         \* the step whose failure aborted startup, or "none"
    trace,           \* the steps completed in this launch, in order
    fsBefore,        \* the filesystem as the creation step found it
    dirMadeBy        \* launch in which the data directory was made, or 0

inputs == <<desktop, envFilter, args, mainWindow>>
logging == <<logInits, filter, log, dropped>>
window == <<argsRead, minimizedFlag, minimizeCalls, minimizeResult, windowMinimized>>
disk == <<fs, fsBefore, dirMadeBy>>

vars == <<desktop, envFilter, args, mainWindow, fs, launch, pc, logInits, filter,
          log, dropped, dataDir, argsRead, minimizedFlag, minimizeCalls,
          minimizeResult, windowMinimized, registered, failure, trace,
          fsBefore, dirMadeBy>>

\* The state of a freshly started process.
Fresh ==
    /\ pc = "init_logging"
    /\ logInits = 0
    /\ filter = "none"
    /\ log = <<>>
    /\ dropped = 0
    /\ dataDir = "none"
    /\ argsRead = FALSE
    /\ minimizedFlag = FALSE
    /\ minimizeCalls = 0
    /\ minimizeResult = "none"
    /\ windowMinimized = FALSE
    /\ registered = <<>>
    /\ failure = "none"
    /\ trace = <<>>

Init ==
    /\ desktop \in BOOLEAN
    /\ envFilter \in EnvValues
    /\ args \in SeqsUpTo(Tokens, MaxArgs)
    /\ mainWindow \in BOOLEAN
    /\ fs \in ValidFs
    /\ fsBefore = fs
    /\ dirMadeBy = 0
    /\ launch = 1
    /\ Fresh

\* ------------------------------------------------------------- operators
\* info!(...): the record reaches the subscriber if one is installed.
Info(msg) ==
    IF logInits > 0
    THEN log' = Append(log, msg) /\ UNCHANGED <<logInits, filter, dropped>>
    ELSE dropped' = dropped + 1 /\ UNCHANGED <<logInits, filter, log>>

\* .expect(...) on an Err, or `?` on an Err followed by the expect on run().
Abort(step) ==
    /\ pc' = "aborted"
    /\ failure' = step

Done(step) == trace' = Append(trace, step)

\* cfg gate of lines 27-36.
AfterLogDir_Ungated(d) == "check_minimized"

AfterLogDir(d) == IF d THEN "check_minimized" ELSE "reg_notification"

\* cfg gate of lines 48-52.
AfterDialog_NoAutostart(d) == "enter_loop"

AfterDialog(d) == IF d THEN "reg_autostart" ELSE "enter_loop"

\* ---------------------------------------------------------------- actions
\* Lines 8-13, with the fallback replaced by an unwrap.
InitLogging_Strict ==
    /\ pc = "init_logging"
    /\ LET r == TryFromDefaultEnv(envFilter) IN
       IF r.ok
       THEN /\ filter' = r.filter
            /\ logInits' = logInits + 1
            /\ pc' = "builder"
            /\ Done("log_init")
            /\ UNCHANGED failure
       ELSE /\ Abort("log_init")
            /\ UNCHANGED <<filter, logInits, trace>>
    /\ UNCHANGED <<inputs, disk, launch, log, dropped, dataDir, window, registered>>

\* Lines 8-13: tracing_subscriber::fmt().with_env_filter(...).init()
InitLogging ==
    /\ pc = "init_logging"
    /\ filter' = UnwrapOrDefault(TryFromDefaultEnv(envFilter))
    /\ logInits' = logInits + 1
    /\ pc' = "builder"
    /\ Done("log_init")
    /\ UNCHANGED <<inputs, disk, launch, log, dropped, dataDir, window, registered,
                   failure>>

\* Lines 15-17: Builder::default().plugin(tauri_plugin_os::init()).setup(..)
BuildApp ==
    /\ pc = "builder"
    /\ registered' = Append(registered, "os")
    /\ pc' = "resolve_dir"
    /\ Done("plugin_os")
    /\ UNCHANGED <<inputs, disk, launch, logging, dataDir, window, failure>>

\* Lines 18-21 with the error replaced by a default path.
ResolveDataDir_OrDefault ==
    /\ pc = "resolve_dir"
    /\ \E ok \in BOOLEAN :
        /\ dataDir' = "resolved"
        /\ pc' = "create_dir"
        /\ Done("resolve_dir")
        /\ failure' = IF ok THEN failure ELSE "app_data_dir"
    /\ UNCHANGED <<inputs, disk, launch, logging, window, registered>>

\* Lines 18-21: app.path().app_data_dir().expect("failed to get app data dir")
ResolveDataDir ==
    /\ pc = "resolve_dir"
    /\ \E ok \in BOOLEAN :
        IF ok
        THEN /\ dataDir' = "resolved"
             /\ pc' = "create_dir"
             /\ Done("resolve_dir")
             /\ UNCHANGED failure
        ELSE /\ Abort("app_data_dir")
             /\ UNCHANGED <<dataDir, trace>>
    /\ UNCHANGED <<inputs, disk, launch, logging, window, registered>>

\* Line 22 with the result discarded.
CreateDataDir_Unchecked ==
    /\ pc = "create_dir"
    /\ LET r == CreateDirAll(fs, PathDepth) IN
        /\ fsBefore' = fs
        /\ fs' = r.fs
        /\ dirMadeBy' = IF r.fs # fs /\ r.ok THEN launch ELSE dirMadeBy
        /\ dataDir' = IF r.ok THEN "created" ELSE dataDir
        /\ pc' = "log_dir"
        /\ Done("create_dir")
        /\ UNCHANGED failure
    /\ UNCHANGED <<inputs, launch, logging, window, registered>>

\* Line 22: std::fs::create_dir_all(&data_dir).expect("failed to create data dir")
CreateDataDir ==
    /\ pc = "create_dir"
    /\ LET r == CreateDirAll(fs, PathDepth) IN
        /\ fsBefore' = fs
        /\ fs' = r.fs
        /\ dirMadeBy' = IF r.fs # fs /\ r.ok THEN launch ELSE dirMadeBy
        /\ IF r.ok
           THEN /\ dataDir' = "created"
                /\ pc' = "log_dir"
                /\ Done("create_dir")
                /\ UNCHANGED failure
           ELSE /\ Abort("create_dir_all")
                /\ UNCHANGED <<dataDir, trace>>
    /\ UNCHANGED <<inputs, launch, logging, window, registered>>

\* Line 24: info!("App data directory: {:?}", data_dir)
LogDataDir ==
    /\ pc = "log_dir"
    /\ Info("App data directory")
    /\ pc' = AfterLogDir(desktop)
    /\ Done("info_data_dir")
    /\ UNCHANGED <<inputs, disk, launch, dataDir, window, registered, failure>>

\* Lines 29-35. missingFatal: a missing window aborts (an unwrap in place
\* of `if let`); errFatal: the result of minimize() is propagated (a `?`
\* in place of `let _ =`). The code is MinimizeBlock(FALSE, FALSE).
MinimizeBlock(missingFatal, errFatal) ==
    /\ pc = "check_minimized"
    /\ argsRead' = TRUE
    /\ minimizedFlag' = Contains(args, SENTINEL)
    /\ IF ~Contains(args, SENTINEL) \/ (~mainWindow /\ ~missingFatal)
       THEN /\ pc' = "reg_notification"
            /\ trace' = trace \o <<"read_args">>
            /\ UNCHANGED <<minimizeCalls, minimizeResult, windowMinimized,
                           logging, failure>>
       ELSE IF ~mainWindow
       THEN /\ Abort("main_window")
            /\ trace' = trace \o <<"read_args">>
            /\ UNCHANGED <<minimizeCalls, minimizeResult, windowMinimized, logging>>
       ELSE \E res \in {"ok", "err"} :
            /\ minimizeCalls' = minimizeCalls + 1
            /\ minimizeResult' = res
            /\ windowMinimized' = (res = "ok")
            /\ IF res = "err" /\ errFatal
               THEN /\ Abort("minimize")
                    /\ trace' = trace \o <<"read_args", "minimize">>
                    /\ UNCHANGED logging
               ELSE /\ Info("Started minimized (autostart)")
                    /\ pc' = "reg_notification"
                    /\ trace' = trace \o <<"read_args", "minimize", "info_minimized">>
                    /\ UNCHANGED failure
    /\ UNCHANGED <<inputs, disk, launch, dataDir, registered>>

CheckMinimized_Unwrap == MinimizeBlock(TRUE, FALSE)

CheckMinimized_Propagate == MinimizeBlock(FALSE, TRUE)

\* Lines 27-36: the cfg-gated block reading the launch arguments.
CheckMinimized == MinimizeBlock(FALSE, FALSE)

\* app.handle().plugin(..) with the error dropped instead of returned.
RegisterPlugin_Ignore(p, at, next) ==
    /\ pc = at
    /\ \E ok \in BOOLEAN :
        /\ registered' = IF ok THEN Append(registered, p) ELSE registered
        /\ trace' = IF ok THEN Append(trace, "plugin_" \o p) ELSE trace
        /\ failure' = IF ok THEN failure ELSE "plugin_" \o p
        /\ pc' = next
    /\ UNCHANGED <<inputs, disk, launch, logging, dataDir, window>>

\* app.handle().plugin(<p>::init(..))?  at position `at` of the closure;
\* an Err leaves the closure at once, an Ok continues at `next`.
RegisterPlugin(p, at, next) ==
    /\ pc = at
    /\ \E ok \in BOOLEAN :
        IF ok
        THEN /\ registered' = Append(registered, p)
             /\ pc' = next
             /\ Done("plugin_" \o p)
             /\ UNCHANGED failure
        ELSE /\ Abort("plugin_" \o p)
             /\ UNCHANGED <<registered, trace>>
    /\ UNCHANGED <<inputs, disk, launch, logging, dataDir, window>>

\* Line 39
RegNotification == RegisterPlugin("notification", "reg_notification", "reg_opener")

\* Line 42
RegOpener == RegisterPlugin("opener", "reg_opener", "reg_dialog")

\* Line 45
RegDialog == RegisterPlugin("dialog", "reg_dialog", AfterDialog(desktop))

\* Lines 48-52
RegAutostart == RegisterPlugin("autostart", "reg_autostart", "enter_loop")

\* Lines 54-57: Ok(()) leaves the closure; run(..) either runs the event
\* loop or returns the Err that .expect(..) turns into an abort.
EnterLoop ==
    /\ pc = "enter_loop"
    /\ \E ok \in BOOLEAN :
        IF ok
        THEN /\ pc' = "running"
             /\ Done("event_loop")
             /\ UNCHANGED failure
        ELSE /\ Abort("run")
             /\ UNCHANGED trace
    /\ UNCHANGED <<inputs, disk, launch, logging, dataDir, window, registered>>

\* The event loop ends when the user or the OS closes the application.
Exit ==
    /\ pc = "running"
    /\ pc' = "exited"
    /\ Done("exit")
    /\ UNCHANGED <<inputs, disk, launch, logging, dataDir, window, registered,
                   failure>>

\* The process is started again on the same machine: the filesystem is as
\* the previous launch left it, everything the process owned is gone.
Relaunch ==
    /\ pc \in {"exited", "aborted"}
    /\ launch < MaxLaunches
    /\ launch' = launch + 1
    /\ pc' = "init_logging"
    /\ logInits' = 0
    /\ filter' = "none"
    /\ log' = <<>>
    /\ dropped' = 0
    /\ dataDir' = "none"
    /\ argsRead' = FALSE
    /\ minimizedFlag' = FALSE
    /\ minimizeCalls' = 0
    /\ minimizeResult' = "none"
    /\ windowMinimized' = FALSE
    /\ registered' = <<>>
    /\ failure' = "none"
    /\ trace' = <<>>
    /\ fsBefore' = fs
    /\ UNCHANGED <<inputs, fs, dirMadeBy>>

Next ==
    \/ InitLogging
    \/ BuildApp
    \/ ResolveDataDir
    \/ CreateDataDir
    \/ LogDataDir
    \/ CheckMinimized
    \/ RegNotification
    \/ RegOpener
    \/ RegDialog
    \/ RegAutostart
    \/ EnterLoop
    \/ Exit
    \/ Relaunch

Spec == Init /\ [][Next]_vars

\* ------------------------------------------------------------ properties
\* The order the setup closure is said to register its plugins in.
SetupPlugins == <<"notification", "opener", "dialog", "autostart">>

IsSetupPlugin(p) == p \in Range(SetupPlugins)

HasSentinel == \E i \in DOMAIN args : args[i] = SENTINEL

Registered(p) == p \in Range(registered)

LoopEntered == "event_loop" \in Range(trace)

LaterFailures == {"plugin_" \o SetupPlugins[n] : n \in DOMAIN SetupPlugins} \cup {"run"}

\* The steps a desktop launch without the flag completes, in order.
DesktopPlainTrace ==
    <<"log_init", "plugin_os", "resolve_dir", "create_dir", "info_data_dir",
      "read_args", "plugin_notification", "plugin_opener", "plugin_dialog",
      "plugin_autostart", "event_loop", "exit">>

\* The steps a desktop launch that minimizes the window completes, in order.
DesktopMinimizedTrace ==
    <<"log_init", "plugin_os", "resolve_dir", "create_dir", "info_data_dir",
      "read_args", "minimize", "info_minimized", "plugin_notification",
      "plugin_opener", "plugin_dialog", "plugin_autostart", "event_loop", "exit">>

\* C1: when the registration of the N-th setup plugin fails, the launch is
\* aborted, no plugin after the N-th is registered and the event loop is
\* not entered.
C1_FatalShortCircuit ==
    \A n \in DOMAIN SetupPlugins :
        failure = "plugin_" \o SetupPlugins[n] =>
            /\ pc = "aborted"
            /\ ~LoopEntered
            /\ \A m \in DOMAIN SetupPlugins : m > n => ~Registered(SetupPlugins[m])

C1_Witness ==
    /\ failure = "plugin_opener"
    /\ Registered("notification")
    /\ desktop

\* C2: when resolving or creating the data directory fails, the launch is
\* aborted at that step: the arguments are not read, no window is minimized,
\* no setup plugin is registered, the event loop is not entered and the
\* step is not tried again.
C2_FatalDataDir ==
    failure \in {"app_data_dir", "create_dir_all"} =>
        /\ pc = "aborted"
        /\ dataDir # "created"
        /\ ~argsRead
        /\ minimizeCalls = 0
        /\ ~windowMinimized
        /\ \A n \in DOMAIN SetupPlugins : ~Registered(SetupPlugins[n])
        /\ ~LoopEntered
        /\ "create_dir" \notin Range(trace)
        /\ failure = "app_data_dir" => "resolve_dir" \notin Range(trace)

C2_Witness ==
    /\ failure = "create_dir_all"
    /\ desktop
    /\ HasSentinel
    /\ mainWindow

\* C3: the minimized-launch decision is true exactly when some launch
\* argument equals the sentinel; longer, shorter or differently cased
\* arguments do not count.
C3_FlagDetection == argsRead => (minimizedFlag <=> HasSentinel)

C3_Witness ==
    /\ argsRead
    /\ ~minimizedFlag
    /\ TokExtended \in Range(args)
    /\ TokUpper \in Range(args)

\* C4: the setup plugins are registered in the order notification, opener,
\* dialog, autostart, each at most once, and on a desktop target autostart
\* is the last plugin registered when the event loop is entered.
C4_PluginOrder ==
    /\ IsPrefix(SelectSeq(registered, IsSetupPlugin), SetupPlugins)
    /\ LoopEntered /\ desktop =>
           /\ registered # <<>>
           /\ registered[Len(registered)] = "autostart"

C4_Witness ==
    /\ pc = "running"
    /\ desktop
    /\ registered = <<"os">> \o SetupPlugins

\* C5 as stated: whenever any plugin is registered, the data directory has
\* been created.
C5_AnyPluginAfterDataDir == registered # <<>> => dataDir = "created"

\* C5, amended: whenever one of the plugins registered by the setup closure
\* (notification, opener, dialog, autostart) is registered, the data
\* directory has been resolved and created, and its creation precedes the
\* first of these registrations.
C5_SetupPluginAfterDataDir ==
    (\E n \in DOMAIN SetupPlugins : Registered(SetupPlugins[n])) =>
        /\ dataDir = "created"
        /\ IsDir(fs, PathDepth)
        /\ IndexOf(trace, "resolve_dir") > 0
        /\ IndexOf(trace, "create_dir") > IndexOf(trace, "resolve_dir")
        /\ IndexOf(trace, "plugin_notification") > IndexOf(trace, "create_dir")

C5_Witness ==
    /\ Registered("notification")
    /\ dirMadeBy = launch

\* C6: on a non-desktop target the launch arguments are never read, no
\* minimize is requested and autostart is never registered, whatever the
\* arguments; notification, opener and dialog are registered in order and
\* the launch goes on to the event loop.
C6_PlatformGating ==
    ~desktop =>
        /\ ~argsRead
        /\ ~minimizedFlag
        /\ minimizeCalls = 0
        /\ ~windowMinimized
        /\ ~Registered("autostart")
        /\ "Started minimized (autostart)" \notin Range(log)
        /\ pc \in {"enter_loop", "running", "exited"} =>
               registered = <<"os", "notification", "opener", "dialog">>
        /\ Registered("dialog") =>
               pc \in {"enter_loop", "running", "exited"} \/ failure = "run"

C6_Witness ==
    /\ ~desktop
    /\ HasSentinel
    /\ mainWindow
    /\ pc = "running"

\* C7: on a desktop target, with the sentinel among the arguments and no
\* main window, the minimize block raises no error, minimizes nothing and
\* logs nothing, and the launch completes the same steps as one without
\* the flag.
C7_MissingWindow ==
    desktop /\ argsRead /\ HasSentinel /\ ~mainWindow =>
        /\ minimizeCalls = 0
        /\ minimizeResult = "none"
        /\ ~windowMinimized
        /\ log = <<"App data directory">>
        /\ dropped = 0
        /\ IsPrefix(trace, DesktopPlainTrace)
        /\ pc = "aborted" => failure \in LaterFailures

C7_Witness ==
    /\ desktop
    /\ HasSentinel
    /\ ~mainWindow
    /\ pc = "running"

\* C8: creating the data directory where it already exists succeeds and
\* changes nothing; creating it twice leaves the filesystem as creating it
\* once does.
C8_IdempotentCreate ==
    LET r1 == CreateDirAll(fs, PathDepth)
        r2 == CreateDirAll(r1.fs, PathDepth)
    IN  /\ r2.fs = r1.fs
        /\ r1.ok => r2.ok /\ IsDir(r1.fs, PathDepth)
        /\ IsDir(fs, PathDepth) => r1.ok /\ r1.fs = fs
        /\ IsDir(fsBefore, PathDepth) => failure # "create_dir_all" /\ fs = fsBefore
        /\ dataDir = "created" => IsDir(fs, PathDepth)

C8_Witness ==
    /\ launch = 2
    /\ dirMadeBy = 1
    /\ dataDir = "created"
    /\ fs = fsBefore

\* C9: logging is initialized once, before every other step; no record is
\* emitted without a subscriber; the initialization does not fail on the
\* filter and uses the default filter when RUST_LOG is unset or invalid.
C9_LoggingFirst ==
    /\ pc = "init_logging" =>
           logInits = 0 /\ trace = <<>> /\ registered = <<>> /\ log = <<>>
    /\ pc # "init_logging" => logInits = 1 /\ trace # <<>>
    /\ trace # <<>> => trace[1] = "log_init"
    /\ Cardinality({i \in DOMAIN trace : trace[i] = "log_init"}) <= 1
    /\ dropped = 0
    /\ Len(log) =
           Cardinality({i \in DOMAIN trace :
                           trace[i] \in {"info_data_dir", "info_minimized"}})
    /\ failure # "log_init"
    /\ logInits = 1 =>
           filter = IF envFilter \in {"unset", "invalid"}
                    THEN "iris_files=info" ELSE envFilter

C9_Witness ==
    /\ envFilter = "invalid"
    /\ log = <<"App data directory", "Started minimized (autostart)">>

\* C10: minimize is requested at most once, exactly when the target is a
\* desktop, the sentinel is among the arguments and the main window exists;
\* after the data directory is created and before any setup plugin is
\* registered; an error it returns is discarded and the launch goes on.
C10_MinimizeRequest ==
    /\ minimizeCalls <= 1
    /\ minimizeCalls = 1 =>
           /\ desktop /\ HasSentinel /\ mainWindow
           /\ dataDir = "created"
           /\ IsPrefix(trace, DesktopMinimizedTrace)
           /\ IndexOf(trace, "minimize") > IndexOf(trace, "create_dir")
           /\ windowMinimized <=> minimizeResult = "ok"
           /\ pc = "aborted" => failure \in LaterFailures
    /\ /\ desktop /\ HasSentinel /\ mainWindow
       /\ dataDir = "created"
       /\ pc \notin {"log_dir", "check_minimized"}
       => minimizeCalls = 1
    /\ (\E n \in DOMAIN SetupPlugins : Registered(SetupPlugins[n]))
           /\ desktop /\ HasSentinel /\ mainWindow
       => IndexOf(trace, "minimize") \in 1..(IndexOf(trace, "plugin_notification") - 1)

C10_Witness ==
    /\ minimizeResult = "err"
    /\ pc = "running"
====
